---- MODULE Spec2Model ----
(***************************************************************************)
(* Engagement feature pipeline of xenty-mvp: utils/pipeline.py             *)
(* (filter_valid_tweets, calculate_engagement_features) and the ratio      *)
(* computation of utils/model_saver.py (predict_engagement).               *)
(*                                                                         *)
(* Python values are records [kind, n, s]: kind is the Python type, n the  *)
(* value of an int, s the characters of a str (or the items of a list).    *)
(* A dict of tweets is a sequence of [id, info] pairs in insertion order.  *)
(***************************************************************************)
EXTENDS Integers, Sequences, FiniteSets, TLC

VARIABLES tweets_data, result, predictor, disk, history, db, clock

vars == <<tweets_data, result, predictor, disk, history, db, clock>>

(* ---------------------------- bounds ----------------------------------- *)

\* largest number of tweets in one tweets_data mapping
MaxPosts == 2

(* ------------------------- Python values -------------------------------- *)

Absent == [kind |-> "absent", n |-> 0, s |-> <<>>]

PyNone == [kind |-> "none", n |-> 0, s |-> <<>>]

PyInt(n) == [kind |-> "int", n |-> n, s |-> <<>>]

PyStr(s) == [kind |-> "str", n |-> 0, s |-> s]

PyList(s) == [kind |-> "list", n |-> 0, s |-> s]

\* dict.get(key): a missing key reads as None
Get(v) == IF v.kind = "absent" THEN PyNone ELSE v

\* dict.get(key, default)
GetDefault(v, default) == IF v.kind = "absent" THEN default ELSE v

\* bool(v)
Truthy(v) ==
    CASE v.kind = "none" -> FALSE
      [] v.kind = "absent" -> FALSE
      [] v.kind = "int" -> v.n # 0
      [] v.kind = "str" -> Len(v.s) > 0
      [] v.kind = "list" -> Len(v.s) > 0

Digits == <<"0", "1", "2", "3", "4", "5", "6", "7", "8", "9">>

IsDigit(c) == \E d \in 1..10 : Digits[d] = c

DigitValue(c) == (CHOOSE d \in 1..10 : Digits[d] = c) - 1

RECURSIVE LStrip(_)
LStrip(s) == IF Len(s) > 0 /\ Head(s) = " " THEN LStrip(Tail(s)) ELSE s

RECURSIVE RStrip(_)
RStrip(s) ==
    IF Len(s) > 0 /\ s[Len(s)] = " " THEN RStrip(SubSeq(s, 1, Len(s) - 1)) ELSE s

RECURSIVE DecimalValue(_)
DecimalValue(s) ==
    IF Len(s) = 0 THEN 0
    ELSE 10 * DecimalValue(SubSeq(s, 1, Len(s) - 1)) + DigitValue(s[Len(s)])

AllDigits(s) == Len(s) > 0 /\ \A i \in 1..Len(s) : IsDigit(s[i])

\* int(str): surrounding blanks stripped, optional sign, decimal digits
ParseInt(s) ==
    LET t == RStrip(LStrip(s))
        signed == Len(t) > 0 /\ t[1] \in {"+", "-"}
        body == IF signed THEN Tail(t) ELSE t
    IN  IF AllDigits(body)
        THEN [ok |-> TRUE, exc |-> "",
              val |-> IF signed /\ t[1] = "-" THEN 0 - DecimalValue(body)
                      ELSE DecimalValue(body)]
        ELSE [ok |-> FALSE, exc |-> "ValueError", val |-> 0]

\* int(v)
PyIntOf(v) ==
    CASE v.kind = "int" -> [ok |-> TRUE, exc |-> "", val |-> v.n]
      [] v.kind = "str" -> ParseInt(v.s)
      [] OTHER -> [ok |-> FALSE, exc |-> "TypeError", val |-> 0]

\* variant: a value int() rejects is defaulted to 0 instead of raising
CoerceCounterDefaulting(v) ==
    IF Truthy(Get(v)) /\ PyIntOf(GetDefault(v, PyInt(0))).ok
    THEN PyIntOf(GetDefault(v, PyInt(0)))
    ELSE [ok |-> TRUE, exc |-> "", val |-> 0]

\* variant: the stored value is coerced without the falsy test
CoerceCounterUnguarded(v) == PyIntOf(GetDefault(v, PyInt(0)))

\* int(info.get(key, 0)) if info.get(key) else 0
CoerceCounter(v) ==
    IF Truthy(Get(v)) THEN PyIntOf(GetDefault(v, PyInt(0)))
    ELSE [ok |-> TRUE, exc |-> "", val |-> 0]

RECURSIVE IsPrefix(_, _)
IsPrefix(p, s) ==
    \/ Len(p) = 0
    \/ Len(s) > 0 /\ Head(p) = Head(s) /\ IsPrefix(Tail(p), Tail(s))

\* needle in haystack, for two str
Contains(needle, hay) ==
    \E i \in 1..(Len(hay) + 1) : IsPrefix(needle, SubSeq(hay, i, Len(hay)))

RTMarker == <<"R", "T", " ", "@">>

\* variant: the marker is looked for at the start of the text only
InTextPrefix(x) ==
    CASE x.kind = "str" -> [ok |-> TRUE, exc |-> "", val |-> IsPrefix(RTMarker, x.s)]
      [] x.kind = "list" -> [ok |-> TRUE, exc |-> "", val |-> FALSE]
      [] OTHER -> [ok |-> FALSE, exc |-> "TypeError", val |-> FALSE]

\* 'RT @' in x : substring of a str, TypeError for None or a number; a list
\* here holds one-character items only, none of which equals 'RT @'
InText(x) ==
    CASE x.kind = "str" -> [ok |-> TRUE, exc |-> "", val |-> Contains(RTMarker, x.s)]
      [] x.kind = "list" -> [ok |-> TRUE, exc |-> "", val |-> FALSE]
      [] OTHER -> [ok |-> FALSE, exc |-> "TypeError", val |-> FALSE]

(* ------------------------ rational numbers ------------------------------ *)

RECURSIVE GCD(_, _)
GCD(a, b) == IF b = 0 THEN a ELSE GCD(b, a % b)

Abs(x) == IF x < 0 THEN 0 - x ELSE x

\* the value n / d (d > 0) as a fraction in lowest terms
Frac(n, d) ==
    LET g == GCD(Abs(n), d)
    IN  [num |-> n \div g, den |-> d \div g]

\* the literal 0 assigned to a ratio
Zero == [num |-> 0, den |-> 1]

\* a / b : ZeroDivisionError when b = 0
TrueDiv(a, b) ==
    IF b = 0 THEN [ok |-> FALSE, exc |-> "ZeroDivisionError", val |-> Zero]
    ELSE [ok |-> TRUE, exc |-> "",
          val |-> IF b > 0 THEN Frac(a, b) ELSE Frac(0 - a, 0 - b)]

(* ----------------------- per-tweet evaluation --------------------------- *)

\* the four coercion lines of the inner try block, in source order: the
\* first one that raises ends the block
EvalCounters(info) ==
    LET v == CoerceCounter(info.views_count)
        l == CoerceCounter(info.likes_count)
        r == CoerceCounter(info.retweet_count)
        p == CoerceCounter(info.reply_count)
        exc == IF ~info.mapping THEN "AttributeError"
               ELSE IF ~v.ok THEN v.exc
               ELSE IF ~l.ok THEN l.exc
               ELSE IF ~r.ok THEN r.exc
               ELSE IF ~p.ok THEN p.exc
               ELSE ""
    IN  [ok |-> exc = "", exc |-> exc,
         views |-> v.val, likes |-> l.val, retweets |-> r.val, replies |-> p.val]

\* variant: only likes count as an interaction
NoViewsButLikes(views, likes, retweets, replies) ==
    views = 0 /\ likes > 0

\* if views == 0 and (likes > 0 or retweets > 0 or replies > 0)
NoViewsButInteractions(views, likes, retweets, replies) ==
    views = 0 /\ (likes > 0 \/ retweets > 0 \/ replies > 0)

\* variant: the no-signal rule tests the interactions of a viewed tweet
NoEngagementButViews(views, likes, retweets, replies) ==
    views > 0 /\ likes = 0 /\ retweets = 0 /\ replies = 0

\* if views == 0 and likes == 0 and retweets == 0 and replies == 0
NoEngagementAtAll(views, likes, retweets, replies) ==
    views = 0 /\ likes = 0 /\ retweets = 0 /\ replies = 0

\* variant: the handler lets the exception end the call
OnTweetErrorAbort(acc, exc) == [acc EXCEPT !.raised = TRUE]

\* except (ValueError, TypeError): continue  /  except Exception: continue
\* the tweet is dropped, the accumulator is untouched and the loop goes on
OnTweetError(acc, exc) == acc

\* variant: a new key goes first
DictSetFirst(d, tweet_id, tweet_info) ==
    <<[id |-> tweet_id, info |-> tweet_info]>> \o d

\* filtered_tweets[tweet_id] = tweet_info (a new key goes last)
DictSet(d, tweet_id, tweet_info) ==
    Append(d, [id |-> tweet_id, info |-> tweet_info])

\* the body of the loop of filter_valid_tweets for one tweet
FilterTweet(acc, tweet_id, info) ==
    LET rt == InText(GetDefault(info.full_text, PyStr(<<>>)))
        c == EvalCounters(info)
    IN  IF ~info.mapping THEN OnTweetError(acc, "AttributeError")
        ELSE IF ~rt.ok THEN OnTweetError(acc, rt.exc)
        ELSE IF rt.val THEN acc
        ELSE IF ~c.ok THEN OnTweetError(acc, c.exc)
        ELSE IF NoViewsButInteractions(c.views, c.likes, c.retweets, c.replies)
        THEN acc
        ELSE IF NoEngagementAtAll(c.views, c.likes, c.retweets, c.replies)
        THEN acc
        ELSE [acc EXCEPT !.filtered_tweets = DictSet(@, tweet_id, info)]

RECURSIVE FilterLoop(_, _, _)
FilterLoop(data, i, acc) ==
    IF i > Len(data) \/ acc.raised THEN acc
    ELSE FilterLoop(data, i + 1, FilterTweet(acc, data[i].id, data[i].info))

filter_valid_tweets(data) ==
    FilterLoop(data, 1, [filtered_tweets |-> <<>>, raised |-> FALSE])

\* variant: the retweets are added to the replies total
AddTweetSwapped(acc, c) ==
    IF c.views > 0
    THEN [acc EXCEPT !.total_views = @ + c.views,
                     !.total_likes = @ + c.likes,
                     !.total_retweets = @ + c.retweets,
                     !.total_replies = @ + c.retweets,
                     !.valid_tweets_count = @ + 1]
    ELSE acc

\* variant: the tweet is counted before the views test
AddTweetCountAll(acc, c) ==
    IF c.views > 0
    THEN [acc EXCEPT !.total_views = @ + c.views,
                     !.total_likes = @ + c.likes,
                     !.total_retweets = @ + c.retweets,
                     !.total_replies = @ + c.replies,
                     !.valid_tweets_count = @ + 1]
    ELSE [acc EXCEPT !.valid_tweets_count = @ + 1]

\* if views > 0: the five additions
AddTweet(acc, c) ==
    IF c.views > 0
    THEN [acc EXCEPT !.total_views = @ + c.views,
                     !.total_likes = @ + c.likes,
                     !.total_retweets = @ + c.retweets,
                     !.total_replies = @ + c.replies,
                     !.valid_tweets_count = @ + 1]
    ELSE acc

\* the body of the loop of calculate_engagement_features for one tweet
AggregateTweet(acc, tweet_id, info) ==
    LET c == EvalCounters(info)
    IN  IF c.ok THEN AddTweet(acc, c) ELSE OnTweetError(acc, c.exc)

RECURSIVE AggregateLoop(_, _, _)
AggregateLoop(data, i, acc) ==
    IF i > Len(data) \/ acc.raised THEN acc
    ELSE AggregateLoop(data, i + 1, AggregateTweet(acc, data[i].id, data[i].info))

\* variant: the guard lets a total of 0 through
ViewNormalizedUnguarded(likes, retweets, replies, total) ==
    IF total >= 0
    THEN <<TrueDiv(likes, total), TrueDiv(retweets, total), TrueDiv(replies, total)>>
    ELSE <<[ok |-> TRUE, exc |-> "", val |-> Zero],
           [ok |-> TRUE, exc |-> "", val |-> Zero],
           [ok |-> TRUE, exc |-> "", val |-> Zero]>>

\* if total > 0: three divisions, else three zeros
ViewNormalized(likes, retweets, replies, total) ==
    IF total > 0
    THEN <<TrueDiv(likes, total), TrueDiv(retweets, total), TrueDiv(replies, total)>>
    ELSE <<[ok |-> TRUE, exc |-> "", val |-> Zero],
           [ok |-> TRUE, exc |-> "", val |-> Zero],
           [ok |-> TRUE, exc |-> "", val |-> Zero]>>

\* variant: the totals are kept from one prediction to the next
InitialTotalsCarried ==
    IF result.op = "predict_engagement_clusters" /\ Len(result.output.rows) > 0
    THEN [total_likes |-> result.output.rows[1].total_likes,
          total_retweets |-> result.output.rows[1].total_retweets,
          total_replies |-> result.output.rows[1].total_replies,
          total_views |-> result.output.rows[1].total_views,
          valid_tweets_count |-> result.output.rows[1].valid_tweets_count,
          raised |-> FALSE]
    ELSE [total_likes |-> 0, total_retweets |-> 0, total_replies |-> 0,
          total_views |-> 0, valid_tweets_count |-> 0, raised |-> FALSE]

\* total_likes = 0 ... valid_tweets_count = 0, set at each call
InitialTotals ==
    [total_likes |-> 0, total_retweets |-> 0, total_replies |-> 0,
     total_views |-> 0, valid_tweets_count |-> 0, raised |-> FALSE]

\* the DataFrame returned: a sequence of rows; raised when the call did not
\* return
calculate_engagement_features(data) ==
    CHOOSE df \in
      UNION { { IF t.raised \/ \E k \in 1..3 : ~q[k].ok
                THEN [raised |-> TRUE, rows |-> <<>>]
                ELSE [raised |-> FALSE,
                      rows |-> << [likes_per_views |-> q[1].val,
                                   retweets_per_views |-> q[2].val,
                                   replies_per_views |-> q[3].val,
                                   total_views |-> t.total_views,
                                   total_likes |-> t.total_likes,
                                   total_retweets |-> t.total_retweets,
                                   total_replies |-> t.total_replies,
                                   valid_tweets_count |-> t.valid_tweets_count] >>]
                : q \in {ViewNormalized(t.total_likes, t.total_retweets,
                                        t.total_replies, t.total_views)} }
              : t \in {AggregateLoop(data, 1, InitialTotals)} } : TRUE

(* ------------- EngagementKMeansPredictor (utils/pipeline.py) ------------- *)

\* arithmetic of fractions in lowest terms, for the scaler and the model
Q == [num : Int, den : Nat]

\* a row of three features, a point of the scaled space
Q3 == Q \X Q \X Q

FAdd[a \in Q, b \in Q] == Frac(a.num * b.den + b.num * a.den, a.den * b.den)

FSub[a \in Q, b \in Q] == Frac(a.num * b.den - b.num * a.den, a.den * b.den)

FMul[a \in Q, b \in Q] == Frac(a.num * b.num, a.den * b.den)

\* a / b for b > 0
FDiv[a \in Q, b \in Q] == Frac(a.num * b.den, a.den * b.num)

FLess(a, b) == a.num * b.den < b.num * a.den

\* utils/clusters.py (labels without their accents)
engagement_clusters_4 ==
    [c \in 0..3 |->
        CASE c = 0 -> [cluster_label |-> "Engagement Equilibre", cluster_color |-> "yellow",
                       cluster_description |-> "engagement modere et bien reparti"]
          [] c = 1 -> [cluster_label |-> "Forte Attraction", cluster_color |-> "green",
                       cluster_description |-> "beaucoup de likes mais peu de replies"]
          [] c = 2 -> [cluster_label |-> "Faible Engagement", cluster_color |-> "red",
                       cluster_description |-> "ratios d'engagement les plus bas"]
          [] c = 3 -> [cluster_label |-> "Haute Viralite", cluster_color |-> "blue",
                       cluster_description |-> "ratios d'engagement les plus eleves"]]

\* self.scaler = None, self.kmeans_model = None
UnsetScaler == [kind |-> "none", version |-> "", mean_ |-> <<>>, scale_ |-> <<>>]

UnsetModel == [kind |-> "none", version |-> "", cluster_centers_ |-> <<>>]

IsNone(x) == x.kind = "none"

\* variant: the labels are keyed by the position of the entry, from 1
ClusterLabelsFromOne == [c \in 1..4 |-> engagement_clusters_4[c - 1].cluster_label]

\* {k: v["cluster_label"] for k, v in engagement_clusters_4.items()}
ClusterLabels == [c \in DOMAIN engagement_clusters_4 |-> engagement_clusters_4[c].cluster_label]

\* EngagementKMeansPredictor(): the instance after __init__
NewPredictor ==
    [scaler |-> UnsetScaler, kmeans_model |-> UnsetModel, cluster_labels |-> ClusterLabels]

\* the fitted scaler stored in scaler.joblib, one per version of the file:
\* per-column mean and scale of the three ratios
FittedScaler(version) ==
    [kind |-> "StandardScaler", version |-> version,
     mean_ |-> IF version = "v1" THEN <<Frac(1, 50), Frac(1, 50), Frac(1, 50)>>
               ELSE <<Frac(1, 25), Frac(1, 50), Frac(1, 100)>>,
     scale_ |-> IF version = "v1" THEN <<Frac(1, 50), Frac(1, 50), Frac(1, 50)>>
                ELSE <<Frac(1, 25), Frac(1, 25), Frac(1, 100)>>]

Point(x, y, z) == <<Frac(x, 1), Frac(y, 1), Frac(z, 1)>>

\* the fitted 4-cluster model stored in kmeans.joblib, one per version of the
\* file: the centres of clusters 0..3 in the scaled space (the centre of
\* cluster c is cluster_centers_[c + 1])
FittedKMeans(version) ==
    [kind |-> "KMeans", version |-> version,
     cluster_centers_ |->
        IF version = "v1"
        THEN <<Point(1, 1, 0), Point(4, 1, 0), Point(-1, -1, -1), Point(2, 4, 1)>>
        ELSE <<Point(-1, -1, -1), Point(1, 3, 0), Point(3, 1, 1), Point(0, 0, 2)>>]

FileVersions == {"v1", "v2"}

\* what the model directory holds under a file name
FileStates == {"absent", "corrupt"} \cup FileVersions

\* path.exists()
Exists(file) == file # "absent"

\* joblib.load(path) raises on a file it cannot unpickle
Loadable(file) == file \in FileVersions

\* load_models: [self, ret]. The two assignments are made in turn, each only
\* if its joblib.load returned
load_models(self, model_dir) ==
    IF ~Exists(model_dir.scaler) \/ ~Exists(model_dir.kmeans)
    THEN [self |-> self, ret |-> FALSE]
    ELSE IF ~Loadable(model_dir.scaler)
    THEN [self |-> self, ret |-> FALSE]
    ELSE IF ~Loadable(model_dir.kmeans)
    THEN [self |-> [self EXCEPT !.scaler = FittedScaler(model_dir.scaler)], ret |-> FALSE]
    ELSE [self |-> [self EXCEPT !.scaler = FittedScaler(model_dir.scaler),
                                !.kmeans_model = FittedKMeans(model_dir.kmeans)],
          ret |-> TRUE]

\* StandardScaler.transform on one row: (x - mean_) / scale_ per column
Transform(scaler, x) ==
    << FDiv[FSub[x[1], scaler.mean_[1]], scaler.scale_[1]],
       FDiv[FSub[x[2], scaler.mean_[2]], scaler.scale_[2]],
       FDiv[FSub[x[3], scaler.mean_[3]], scaler.scale_[3]] >>

Sq[a \in Q] == FMul[a, a]

\* squared distance of two points
Dist2[x \in Q3, y \in Q3] ==
    FAdd[FAdd[Sq[FSub[x[1], y[1]]], Sq[FSub[x[2], y[2]]]], Sq[FSub[x[3], y[3]]]]

\* the squared distances of x to the centres, in the order of the clusters
Distances[centers \in Seq(Q3), x \in Q3] ==
    [c \in 1..Len(centers) |-> Dist2[x, centers[c]]]

\* the first index of a least distance, counted from 0
ArgMin[d \in Seq(Q)] ==
    CHOOSE c \in 0..(Len(d) - 1) :
       \A o \in 0..(Len(d) - 1) :
          /\ ~FLess(d[o + 1], d[c + 1])
          /\ (o < c => FLess(d[c + 1], d[o + 1]))

\* KMeans.predict on one row: the first nearest centre
Predict(kmeans, x) == ArgMin[Distances[kmeans.cluster_centers_, x]]

\* feature_columns = ['likes_per_views', 'retweets_per_views', 'replies_per_views']
\* features_df = df[feature_columns], for one row
FeatureColumns(row) ==
    <<row.likes_per_views, row.retweets_per_views, row.replies_per_views>>

\* variant: the scaler is fitted on the row before it transforms it
ScaleFeaturesFitting(scaler, x) ==
    [scaler |-> [scaler EXCEPT !.mean_ = x, !.scale_ = Point(1, 1, 1)],
     out |-> Transform([scaler EXCEPT !.mean_ = x, !.scale_ = Point(1, 1, 1)], x),
     call |-> "scaler.fit_transform"]

\* features_scaled = self.scaler.transform(features_df): the scaler after
\* the call, the scaled row and the method called
ScaleFeatures(scaler, x) ==
    [scaler |-> scaler, out |-> Transform(scaler, x), call |-> "scaler.transform"]

\* df['cluster'].map(self.cluster_labels): NaN for an id without a label
MapLabel(cluster_labels, cluster) ==
    IF cluster \in DOMAIN cluster_labels THEN cluster_labels[cluster] ELSE "NaN"

\* variant: a table whose row counts no post is empty
DataFrameEmptyNoPost(rows) == Len(rows) = 0 \/ rows[1].valid_tweets_count = 0

\* df.empty
DataFrameEmpty(rows) == Len(rows) = 0

\* lines 151-165 of predict_engagement_clusters for the rows of df
AssignClusters(self, rows) ==
    LET sc == ScaleFeatures(self.scaler, FeatureColumns(rows[1]))
        cluster == Predict(self.kmeans_model, sc.out)
    IN  [self |-> [self EXCEPT !.scaler = sc.scaler],
         rows |-> << rows[1] @@ [cluster |-> cluster,
                                 cluster_label |-> MapLabel(self.cluster_labels, cluster)] >>,
         calls |-> <<sc.call, "kmeans_model.predict">>]

\* variant: every call loads
NeedsLoadAlways(self) == TRUE

\* if self.scaler is None or self.kmeans_model is None
NeedsLoad(self) == IsNone(self.scaler) \/ IsNone(self.kmeans_model)

\* the value of a call of predict_engagement_clusters: the instance after the
\* call, the exception raised if any, whether None was returned, the rows
\* returned, the methods called on the artifacts, whether load_models was called
Outcome(self, exc, none, rows, calls, load_called) ==
    [self |-> self, raised |-> exc # "", exc |-> exc, none |-> none, rows |-> rows,
     calls |-> calls, load_called |-> load_called]

\* return df, with the cluster and cluster_label columns
Assigned(a, load_called) == Outcome(a.self, "", FALSE, a.rows, a.calls, load_called)

\* variant: the value of load_models is not looked at
predict_engagement_clusters_unchecked(self, data, model_dir) ==
    LET needs == NeedsLoad(self)
        ld == IF needs THEN load_models(self, model_dir) ELSE [self |-> self, ret |-> TRUE]
    IN  CHOOSE outcome \in
          { IF DataFrameEmpty(df.rows)
            THEN Outcome(ld.self, "", TRUE, <<>>, <<>>, needs)
            ELSE IF IsNone(ld.self.scaler) \/ IsNone(ld.self.kmeans_model)
            THEN Outcome(ld.self, "AttributeError", FALSE, <<>>, <<>>, needs)
            ELSE Assigned(AssignClusters(ld.self, df.rows), needs)
            : df \in {calculate_engagement_features(data)} } : TRUE

\* predict_engagement_clusters on the instance self, with the model
\* directory as it is at the call
predict_engagement_clusters(self, data, model_dir) ==
    LET needs == NeedsLoad(self)
        ld == IF needs THEN load_models(self, model_dir) ELSE [self |-> self, ret |-> TRUE]
    IN  IF ~ld.ret
        THEN Outcome(ld.self, "", TRUE, <<>>, <<>>, needs)
        ELSE CHOOSE outcome \in
               { IF DataFrameEmpty(df.rows)
                 THEN Outcome(ld.self, "", TRUE, <<>>, <<>>, needs)
                 ELSE IF IsNone(ld.self.scaler) \/ IsNone(ld.self.kmeans_model)
                 THEN Outcome(ld.self, "AttributeError", FALSE, <<>>, <<>>, needs)
                 ELSE Assigned(AssignClusters(ld.self, df.rows), needs)
                 : df \in {calculate_engagement_features(data)} } : TRUE

\* predictor.get_account_engagement_summary(results_df): the class defines no
\* such attribute, the lookup raises
get_account_engagement_summary(self, results_df) ==
    [raised |-> TRUE, exc |-> "AttributeError", summary |-> <<>>]

\* st.metric("Dominant Cluster", ...) and st.write(...) of the page: the
\* label, the colour marker and the description shown for a summary
DominantDisplay(summary) ==
    [dominant_cluster |-> summary.dominant_cluster,
     cluster_color |-> engagement_clusters_4[0].cluster_color,
     cluster_description |-> engagement_clusters_4[0].cluster_description]

\* the prediction page from "if tweets_data:" on, with a predictor of its own:
\* the message shown, what is displayed for the dominant cluster and the
\* exception that ends the run
RunPage(data, model_dir) ==
    CHOOSE shown \in
      { IF Len(data) = 0
        THEN [message |-> "", raised |-> FALSE, exc |-> "", displayed |-> <<>>]
        ELSE IF Len(filtered_tweets) = 0
        THEN [message |-> "No valid tweets found for engagement analysis after filtering.",
              raised |-> FALSE, exc |-> "", displayed |-> <<>>]
        ELSE CHOOSE after \in
               { IF p.raised
                 THEN [message |-> "", raised |-> TRUE, exc |-> p.exc, displayed |-> <<>>]
                 ELSE IF ~p.none /\ ~DataFrameEmpty(p.rows)
                 THEN IF get_account_engagement_summary(p.self, p.rows).raised
                      THEN [message |-> "", raised |-> TRUE,
                            exc |-> get_account_engagement_summary(p.self, p.rows).exc,
                            displayed |-> <<>>]
                      ELSE [message |-> "", raised |-> FALSE, exc |-> "",
                            displayed |-> DominantDisplay(
                               get_account_engagement_summary(p.self, p.rows).summary)]
                 ELSE [message |-> "Failed to perform engagement analysis. Please check the data and try again.",
                       raised |-> FALSE, exc |-> "", displayed |-> <<>>]
                 : p \in {predict_engagement_clusters(NewPredictor, filtered_tweets,
                                                      model_dir)} } : TRUE
        : filtered_tweets \in {filter_valid_tweets(data).filtered_tweets} } : TRUE

(* --------------- predict_engagement (utils/model_saver.py) --------------- *)

\* a ratio key of account_data: missing, or present with a value
NoKey == [has |-> FALSE, val |-> Zero]

Key(v) == [has |-> TRUE, val |-> v]

\* a counter key of account_data: missing, or present with an integer
NoCount == [has |-> FALSE, val |-> 0]

Count(n) == [has |-> TRUE, val |-> n]

\* account_data.get(key, 0) for a counter key
GetCount(k) == IF k.has THEN k.val ELSE 0

\* the feature values computed by predict_engagement, in the order of the
\* feature list [likes_per_views, retweets_per_views, replies_per_views]
predict_engagement_features(account_data) ==
    LET direct == /\ account_data.likes_per_views.has
                  /\ account_data.retweets_per_views.has
                  /\ account_data.replies_per_views.has
        total_views == GetCount(account_data.views)
        q == ViewNormalized(GetCount(account_data.likes),
                            GetCount(account_data.retweets),
                            GetCount(account_data.replies), total_views)
    IN  IF direct
        THEN [raised |-> FALSE,
              feature_values |-> <<account_data.likes_per_views.val,
                                   account_data.retweets_per_views.val,
                                   account_data.replies_per_views.val>>]
        ELSE IF \E k \in 1..3 : ~q[k].ok
        THEN [raised |-> TRUE, feature_values |-> <<>>]
        ELSE [raised |-> FALSE, feature_values |-> <<q[1].val, q[2].val, q[3].val>>]

(* ---------------------- cast_views_count_to_int ------------------------- *)

\* a cell of the posts column: NaN, a text that is not JSON, the JSON text of
\* a mapping of posts, or (what the cast returns) the mapping itself
NaN == [kind |-> "nan", posts |-> <<>>]

NotJson == [kind |-> "text", posts |-> <<>>]

JsonText(posts) == [kind |-> "json", posts |-> posts]

Dict(posts) == [kind |-> "dict", posts |-> posts]

\* pd.isna(post_json_str)
IsNa(cell) == cell.kind = "nan"

\* json.loads(post_json_str): JSONDecodeError for a text that is not JSON
JsonLoads(cell) ==
    IF cell.kind = "json" THEN [ok |-> TRUE, exc |-> "", val |-> cell.posts]
    ELSE [ok |-> FALSE, exc |-> "JSONDecodeError", val |-> <<>>]

\* the body of the loop for one tweet:
\* tweet_data['views_count'] = int(tweet_data.pop('views_count'))
CastTweet(tweet_data) ==
    IF tweet_data.views_count.kind = "absent"
    THEN [ok |-> TRUE, exc |-> "", val |-> tweet_data]
    ELSE IF PyIntOf(tweet_data.views_count).ok
    THEN [ok |-> TRUE, exc |-> "",
          val |-> [tweet_data EXCEPT
                     !.views_count = PyInt(PyIntOf(tweet_data.views_count).val)]]
    ELSE [ok |-> FALSE, exc |-> PyIntOf(tweet_data.views_count).exc,
          val |-> tweet_data]

\* for _, tweet_data in posts_dict.items(): the first int() that raises ends
\* the call
RECURSIVE CastLoop(_, _)
CastLoop(posts_dict, i) ==
    IF i > Len(posts_dict) THEN [raised |-> FALSE, exc |-> "", posts |-> posts_dict]
    ELSE IF ~CastTweet(posts_dict[i].info).ok
    THEN [raised |-> TRUE, exc |-> CastTweet(posts_dict[i].info).exc,
          posts |-> posts_dict]
    ELSE CastLoop([posts_dict EXCEPT ![i].info = CastTweet(posts_dict[i].info).val],
                  i + 1)

cast_views_count_to_int(post_json_str) ==
    IF IsNa(post_json_str)
    THEN [raised |-> FALSE, exc |-> "", value |-> post_json_str]
    ELSE IF ~JsonLoads(post_json_str).ok
    THEN [raised |-> FALSE, exc |-> "", value |-> post_json_str]
    ELSE CHOOSE r \in { [raised |-> c.raised, exc |-> c.exc,
                         value |-> IF c.raised THEN post_json_str ELSE Dict(c.posts)] :
                        c \in {CastLoop(JsonLoads(post_json_str).val, 1)} } : TRUE

(* ---------------- the scraper: get_tweets_with_comments ------------------ *)

\* the age in seconds from which the posts of a row are fetched again
Day == 86400

\* longest list of usernames handed to one call
MaxUsernames == 2

Usernames == {"alice", "bob"}

\* the columns posts and sync_at of a row of x_cryptos: NULL or a value; the
\* posts are the tweet entries of the stored JSON mapping, in order
NullPosts == [null |-> TRUE, tweets |-> <<>>]

Posts(tweets) == [null |-> FALSE, tweets |-> tweets]

NullTime == [null |-> TRUE, t |-> 0]

At(t) == [null |-> FALSE, t |-> t]

\* fetchone() gave no row
NoRow == [exists |-> FALSE, posts |-> NullPosts, sync_at |-> NullTime]

Row(posts, sync_at) == [exists |-> TRUE, posts |-> posts, sync_at |-> sync_at]

EmptyDb == [u \in Usernames |-> NoRow]

T1 == "tweet-1"

T2 == "tweet-2"

\* what the API and the database answer while one username is processed:
\* user is the answer of get_user_by_username (found, none, raise), upsert
\* whether upsert_user_result_to_db writes the row, timeline the tweet entries
\* of get_user_tweets (timeline_ok FALSE: the request raises), comments the
\* answer of get_tweet_comments_v2 for each tweet (tweet: the entry of the
\* tweet with its data, other: entries without it, none: no TimelineAddEntries,
\* raise), author whether the tweet carries its user, update whether the
\* UPDATE and the commit go through
Api(user, upsert, timeline_ok, timeline, c1, c2, author, update) ==
    [user |-> user, upsert |-> upsert, timeline_ok |-> timeline_ok,
     timeline |-> timeline, comments |-> (T1 :> c1 @@ T2 :> c2),
     author |-> author, update |-> update]

Apis ==
    { Api("found", TRUE, TRUE, <<T1, T2>>, "tweet", "tweet", TRUE, "ok"),
      Api("raise", TRUE, TRUE, <<T1, T2>>, "none", "tweet", TRUE, "ok"),
      Api("found", TRUE, TRUE, <<T1, T2>>, "raise", "other", TRUE, "ok"),
      Api("none", TRUE, TRUE, <<>>, "tweet", "tweet", TRUE, "ok"),
      Api("found", TRUE, FALSE, <<>>, "raise", "raise", FALSE, "ok"),
      Api("found", TRUE, TRUE, <<T1>>, "tweet", "tweet", TRUE, "raise"),
      Api("found", FALSE, TRUE, <<T1>>, "tweet", "tweet", FALSE, "ok") }

\* variant: posts synced exactly 86400 seconds ago are still reused
CacheFreshInclusive(row, now) ==
    /\ row.exists
    /\ ~row.posts.null
    /\ ~row.sync_at.null
    /\ (now - row.sync_at.t) <= Day

\* result and posts is not None and sync_at is not None
\* and (int(time.time()) - int(sync_at)) < 86400
CacheFresh(row, now) ==
    /\ row.exists
    /\ ~row.posts.null
    /\ ~row.sync_at.null
    /\ (now - row.sync_at.t) < Day

\* upsert_user_result_to_db: the row of the user is inserted, or its sync_at
\* refreshed; an exception is swallowed and nothing written
Upsert(data, username, now, ok) ==
    IF ~ok THEN data
    ELSE [data EXCEPT ![username] =
             IF @.exists THEN [@ EXCEPT !.sync_at = At(now)]
             ELSE Row(NullPosts, At(now))]

\* UPDATE x_cryptos SET posts = ?, sync_at = ? WHERE screen_name = ?
Update(data, username, posts, now) ==
    [data EXCEPT ![username] =
        IF @.exists THEN [@ EXCEPT !.posts = posts, !.sync_at = At(now)] ELSE @]

\* the end of the processing of one username: the table, the flag put in
\* results, the way taken and the number of API requests issued
Done(data, flag, path, requests) ==
    [db |-> data, flag |-> flag, path |-> path, requests |-> requests]

\* formatted_tweets: the tweets whose comments answer holds the tweet itself
FormattedTweets(api, tweet_ids) ==
    SelectSeq(tweet_ids, LAMBDA t : api.comments[t] = "tweet")

\* the upsert of the author found in the first tweet (i == 0)
AuthorUpsert(data, now, username, api) ==
    IF api.comments[api.timeline[1]] = "tweet" /\ api.author
    THEN Upsert(data, username, now, api.upsert)
    ELSE data

\* json.dumps(formatted_tweets), the UPDATE and the commit
StoreTweets(data, now, username, api, requests) ==
    IF api.update = "raise" THEN Done(data, FALSE, "exception", requests)
    ELSE Done(Update(data, username, Posts(FormattedTweets(api, api.timeline)), now),
              TRUE, "stored", requests)

\* get_user_tweets, the tweet ids of the timeline and the comments of each
FetchTweets(data, now, username, api, requests) ==
    IF ~api.timeline_ok THEN Done(data, FALSE, "exception", requests + 1)
    ELSE IF Len(api.timeline) = 0 THEN Done(data, FALSE, "no_tweets", requests + 1)
    ELSE StoreTweets(AuthorUpsert(data, now, username, api), now, username, api,
                     requests + 1 + Len(api.timeline))

\* the body of the loop for one username
ProcessUsername(data, now, username, api) ==
    IF CacheFresh(data[username], now) THEN Done(data, TRUE, "cached", 0)
    ELSE IF ~data[username].exists
    THEN IF api.user = "raise" THEN Done(data, FALSE, "exception", 1)
         ELSE IF api.user = "none" THEN Done(data, FALSE, "no_user", 1)
         ELSE FetchTweets(Upsert(data, username, now, api.upsert), now, username, api, 1)
    ELSE FetchTweets(data, now, username, api, 0)

\* results[username] = flag
SetFlag(results, username, flag) ==
    [u \in DOMAIN results \cup {username} |->
        IF u = username THEN flag ELSE results[u]]

\* variant: an exception on one username ends the loop
AfterUsernameBreaking(usernames, i, path) ==
    IF path = "exception" THEN Len(usernames) + 1 ELSE i + 1

\* the username the loop goes on with, whatever the way the last one took
AfterUsername(usernames, i, path) == i + 1

RECURSIVE UsernamesLoop(_, _, _, _, _)
UsernamesLoop(usernames, i, acc, now, world) ==
    IF i > Len(usernames) THEN acc
    ELSE CHOOSE r \in
            { UsernamesLoop(usernames, AfterUsername(usernames, i, p.path),
                 [db |-> p.db,
                  results |-> SetFlag(acc.results, usernames[i], p.flag),
                  trace |-> Append(acc.trace,
                               [username |-> usernames[i],
                                row |-> acc.db[usernames[i]],
                                after |-> p.db[usernames[i]],
                                flag |-> p.flag, path |-> p.path,
                                requests |-> p.requests])],
                 now, world) :
              p \in {ProcessUsername(acc.db, now, usernames[i], world[usernames[i]])} } :
            TRUE

get_tweets_with_comments(data, now, usernames, world) ==
    UsernamesLoop(usernames, 1, [db |-> data, results |-> <<>>, trace |-> <<>>],
                  now, world)

(* ------------------------------ inputs ---------------------------------- *)

Tweet(text, views, likes, retweets, replies) ==
    [mapping |-> TRUE, full_text |-> text, views_count |-> views,
     likes_count |-> likes, retweet_count |-> retweets, reply_count |-> replies]

\* a record that is not a dict (tweet_info.get raises AttributeError)
NotAMapping ==
    [mapping |-> FALSE, full_text |-> Absent, views_count |-> Absent,
     likes_count |-> Absent, retweet_count |-> Absent, reply_count |-> Absent]

Hello == PyStr(<<"h", "e", "l", "l", "o">>)

Reshare == PyStr(<<"R", "T", " ", "@", "a", ":", " ", "g", "m">>)

Quoted == PyStr(<<"g", "m", " ", "R", "T", " ", "@", "b">>)

S0 == PyStr(<<"0">>)

S1 == PyStr(<<"1">>)

S2 == PyStr(<<"2">>)

S5 == PyStr(<<"5">>)

S10 == PyStr(<<"1", "0">>)

S100 == PyStr(<<"1", "0", "0">>)

Abc == PyStr(<<"a", "b", "c">>)

Minus3 == PyStr(<<"-", "3">>)

Empty == PyStr(<<>>)

AList == PyList(<<"7">>)

\* the tweets a tweets_data mapping is built from
Tweets ==
    { Tweet(Hello, S100, S10, S5, S2),
      Tweet(Hello, PyInt(50), PyInt(1), PyInt(0), PyInt(1)),
      Tweet(Hello, S0, S5, S0, S0),
      Tweet(Hello, S0, S0, S1, S0),
      Tweet(Hello, Empty, Absent, PyNone, S2),
      Tweet(Hello, S0, S0, S0, S0),
      Tweet(Absent, Absent, PyNone, Empty, PyInt(0)),
      Tweet(Reshare, PyStr(<<"1", "0", "0", "0">>), PyStr(<<"5", "0", "0">>), Absent, Absent),
      Tweet(Quoted, S100, S10, S5, S2),
      Tweet(Reshare, S100, Abc, S5, S2),
      Tweet(Hello, Abc, S10, S5, S2),
      Tweet(Hello, S100, Abc, S5, S2),
      Tweet(Hello, S100, S10, S5, Abc),
      Tweet(Hello, S100, AList, S5, S2),
      Tweet(Hello, S100, Minus3, S5, S2),
      Tweet(Hello, Minus3, S10, S0, S0),
      Tweet(Hello, PyStr(<<" ", "7", " ">>), Empty, Empty, PyStr(<<"+", "1">>)),
      Tweet(Hello, S100, Absent, Absent, Absent),
      Tweet(Absent, S100, S10, S5, S2),
      Tweet(PyNone, S100, S10, S5, S2),
      NotAMapping }

\* tweet ids are distinct; the newest (largest) comes first, as the API
\* returns them
TweetId(i) == 100 - i

\* the mappings of n tweets
Mappings(n) ==
    { [i \in 1..n |-> [id |-> TweetId(i), info |-> f[i]]] : f \in [1..n -> Tweets] }

Ratio(n, d) == Key(Frac(n, d))

Account(lpv, rpv, ppv, views, likes, retweets, replies) ==
    [likes_per_views |-> lpv, retweets_per_views |-> rpv, replies_per_views |-> ppv,
     views |-> views, likes |-> likes, retweets |-> retweets, replies |-> replies]

\* the account_data dictionaries handed to predict_engagement
Accounts ==
    { Account(NoKey, NoKey, NoKey, Count(150), Count(11), Count(5), Count(3)),
      Account(NoKey, NoKey, NoKey, Count(0), Count(11), Count(5), Count(3)),
      Account(NoKey, NoKey, NoKey, NoCount, Count(5), NoCount, NoCount),
      Account(NoKey, NoKey, NoKey, Count(-4), Count(2), Count(0), Count(1)),
      Account(Ratio(11, 150), Ratio(1, 30), Ratio(1, 50), Count(0), NoCount, NoCount, NoCount),
      Account(NoKey, Ratio(1, 30), NoKey, Count(50), Count(1), Count(0), Count(1)) }

(* --------------------------- state machine ------------------------------ *)

\* variant: the coerced counters are stored back in the tweet
TweetInfoCast(info, c) ==
    IF info.mapping /\ c.ok
    THEN [info EXCEPT !.views_count = PyInt(c.views), !.likes_count = PyInt(c.likes),
                      !.retweet_count = PyInt(c.retweets), !.reply_count = PyInt(c.replies)]
    ELSE info

\* tweet_info after an iteration of the loop of filter_valid_tweets or of
\* calculate_engagement_features: the bodies read it through .get and assign
\* to locals, to the totals and to filtered_tweets only
TweetInfoAfter(info, c) == info

\* the mapping read, after a loop went over the tweets of data (a filtered
\* mapping holds the very tweet objects of the mapping it was taken from)
MappingAfter(all, data) ==
    [i \in 1..Len(all) |->
        IF \E j \in 1..Len(data) : data[j].id = all[i].id
        THEN [id |-> all[i].id,
              info |-> TweetInfoAfter(all[i].info, EvalCounters(all[i].info))]
        ELSE all[i]]

NoCall == [op |-> "none", input |-> <<>>, output |-> <<>>]

\* the model directory before any artifact is put there
EmptyModelDir == [scaler |-> "absent", kmeans |-> "absent"]

\* what is remembered of the calls made on the instance: whether
\* predict_engagement_clusters was called at all, one earlier call of it
\* (its input, the artifacts it used and what it returned), and whether a
\* call on another input was made since
NoHistory ==
    [predicted |-> FALSE,
     earlier |-> [set |-> FALSE, input |-> <<>>, scaler |-> UnsetScaler,
                  kmeans_model |-> UnsetModel, none |-> TRUE, rows |-> <<>>],
     between |-> FALSE]

Init ==
    /\ tweets_data \in UNION { Mappings(n) : n \in 0..MaxPosts }
    /\ result = NoCall
    /\ predictor = NewPredictor
    /\ disk = EmptyModelDir
    /\ history = NoHistory
    /\ db = EmptyDb
    /\ clock = 0

\* filtered = filter_valid_tweets(tweets_data)
FilterValidTweets ==
    /\ result' = [op |-> "filter_valid_tweets", input |-> tweets_data,
                  output |-> filter_valid_tweets(tweets_data)]
    /\ tweets_data' = MappingAfter(tweets_data, tweets_data)
    /\ UNCHANGED <<predictor, disk, history, db, clock>>

\* calculate_engagement_features on the raw mapping, or on the filtered one
\* as the prediction page does
CalculateEngagementFeatures ==
    /\ \E data \in {tweets_data, filter_valid_tweets(tweets_data).filtered_tweets} :
          /\ result' = [op |-> "calculate_engagement_features", input |-> data,
                        output |-> calculate_engagement_features(data)]
          /\ tweets_data' = MappingAfter(tweets_data, data)
    /\ UNCHANGED <<predictor, disk, history, db, clock>>

\* the feature computation of predict_engagement
PredictEngagement ==
    /\ \E account_data \in Accounts :
          result' = [op |-> "predict_engagement", input |-> account_data,
                     output |-> predict_engagement_features(account_data)]
    /\ UNCHANGED <<tweets_data, predictor, disk, history, db, clock>>

\* the posts of a database row are dicts: the scraper stores nothing else
StoredPosts(data) == \A i \in 1..Len(data) : data[i].info.mapping

\* the cell of the posts column for a mapping of posts: its JSON text; where
\* no post is stored, NaN or a text that is not JSON as well
Cells(data) ==
    {JsonText(d) : d \in {x \in {data} : StoredPosts(x)}} \cup
    (IF Len(data) = 0 THEN {NaN, NotJson} ELSE {})

\* df['posts'].apply(cast_views_count_to_int) on one cell of the posts column
CastViewsCountToInt ==
    /\ \E cell \in Cells(tweets_data) :
          result' = [op |-> "cast_views_count_to_int", input |-> cell,
                     output |-> cast_views_count_to_int(cell)]
    /\ UNCHANGED <<tweets_data, predictor, disk, history, db, clock>>

Next ==
    \/ CastViewsCountToInt
    \/ FilterValidTweets
    \/ CalculateEngagementFeatures
    \/ PredictEngagement

Spec == Init /\ [][Next]_vars

(* ------------------- the predictor and its model files ------------------- *)

\* the mappings the predictor is run on: empty, one or two posts that count,
\* one that is skipped, a reshare, posts the filter keeps but the aggregation
\* does not count
PredictorInputs ==
    { <<>>,
      << [id |-> 99, info |-> Tweet(Hello, S100, S10, S2, S1)] >>,
      << [id |-> 99, info |-> Tweet(Hello, S100, S5, S10, S2)] >>,
      << [id |-> 99, info |-> Tweet(Hello, S100, S10, S2, S1)],
         [id |-> 98, info |-> Tweet(Quoted, S100, S0, S2, S1)] >>,
      << [id |-> 99, info |-> Tweet(Hello, Abc, S5, S1, S1)] >>,
      << [id |-> 99, info |-> Tweet(Reshare, S100, S5, S1, S1)],
         [id |-> 98, info |-> Tweet(Hello, S0, S0, S0, S0)] >>,
      << [id |-> 99, info |-> Tweet(Hello, S0, Minus3, S0, S0)] >> }

\* the states of the model directory: nothing there, one file of the two,
\* both files of one fitting, a file that does not unpickle
ModelDirs ==
    { EmptyModelDir,
      [scaler |-> "v1", kmeans |-> "absent"],
      [scaler |-> "absent", kmeans |-> "v1"],
      [scaler |-> "v1", kmeans |-> "v1"],
      [scaler |-> "v2", kmeans |-> "v2"],
      [scaler |-> "v1", kmeans |-> "corrupt"],
      [scaler |-> "corrupt", kmeans |-> "v1"] }

InitPredictor ==
    /\ tweets_data \in PredictorInputs
    /\ result = NoCall
    /\ predictor = NewPredictor
    /\ disk \in ModelDirs
    /\ history = NoHistory
    /\ db = EmptyDb
    /\ clock = 0

\* the files of the model directory are put, replaced or removed
ChangeModelFiles ==
    /\ disk' \in ModelDirs
    /\ UNCHANGED <<tweets_data, result, predictor, history, db, clock>>

\* predictor = EngagementKMeansPredictor()
CreatePredictor ==
    /\ predictor' = NewPredictor
    /\ history' = NoHistory
    /\ UNCHANGED <<tweets_data, result, disk, db, clock>>

\* results_df = predictor.predict_engagement_clusters(data) on the raw mapping
\* or on the filtered one; the call may be the one remembered
PredictEngagementClusters ==
    \E data \in {tweets_data, filter_valid_tweets(tweets_data).filtered_tweets} :
    \E out \in {predict_engagement_clusters(predictor, data, disk)} :
    \E used \in {IF NeedsLoad(predictor) THEN load_models(predictor, disk).self
                 ELSE predictor} :
    \E remember \in BOOLEAN :
       /\ result' = [op |-> "predict_engagement_clusters",
                     input |-> data,
                     output |-> [before |-> predictor, disk |-> disk,
                                 self |-> out.self, raised |-> out.raised,
                                 exc |-> out.exc, none |-> out.none,
                                 rows |-> out.rows, calls |-> out.calls,
                                 load_called |-> out.load_called]]
       /\ predictor' = out.self
       /\ history' = [predicted |-> TRUE,
                      earlier |-> IF remember
                                  THEN [set |-> TRUE, input |-> data,
                                        scaler |-> used.scaler,
                                        kmeans_model |-> used.kmeans_model,
                                        none |-> out.none, rows |-> out.rows]
                                  ELSE history.earlier,
                      between |-> /\ ~remember
                                  /\ history.earlier.set
                                  /\ \/ history.between
                                     \/ data # history.earlier.input]
       /\ tweets_data' = MappingAfter(tweets_data, data)
       /\ UNCHANGED <<disk, db, clock>>

\* summary = predictor.get_account_engagement_summary(results_df), on the rows
\* of the last prediction or on an empty table
GetAccountEngagementSummary ==
    /\ \E results_df \in {<<>>} \cup
                            (IF result.op = "predict_engagement_clusters"
                             THEN {result.output.rows} ELSE {}) :
          result' = [op |-> "get_account_engagement_summary", input |-> results_df,
                     output |-> get_account_engagement_summary(predictor, results_df)]
    /\ UNCHANGED <<tweets_data, predictor, disk, history, db, clock>>

\* one run of the prediction page on the mapping read
RunPredictionPage ==
    /\ result' = [op |-> "page", input |-> tweets_data,
                  output |-> [disk |-> disk, shown |-> RunPage(tweets_data, disk)]]
    /\ tweets_data' = MappingAfter(tweets_data, tweets_data)
    /\ UNCHANGED <<predictor, disk, history, db, clock>>

\* the page's display of the dominant cluster, for a summary naming one of
\* the four labels as dominant
DisplayDominantCluster ==
    /\ \E c \in DOMAIN engagement_clusters_4 :
       \E summary \in {[dominant_cluster |-> engagement_clusters_4[c].cluster_label]} :
          result' = [op |-> "display", input |-> summary,
                     output |-> DominantDisplay(summary)]
    /\ UNCHANGED <<tweets_data, predictor, disk, history, db, clock>>

NextPredictor ==
    \/ ChangeModelFiles
    \/ CreatePredictor
    \/ FilterValidTweets
    \/ CalculateEngagementFeatures
    \/ PredictEngagementClusters
    \/ GetAccountEngagementSummary
    \/ RunPredictionPage
    \/ DisplayDominantCluster

SpecPredictor == InitPredictor /\ [][NextPredictor]_vars

(* --------------------- the scraper and its table ------------------------- *)

\* the lists of usernames a call is given, of MaxUsernames usernames at most:
\* none, one, two, the same one twice, and longer ones with a repetition
UsernameLists ==
    { l \in { <<>>, <<"alice">>, <<"alice", "bob">>, <<"bob", "alice">>,
              <<"alice", "alice">>, <<"alice", "bob", "alice">>,
              <<"alice", "alice", "bob">> } :
        Len(l) <= MaxUsernames }

\* the times the clock shows
Times == {0, 1, Day}

InitScraper ==
    /\ tweets_data = <<>>
    /\ result = NoCall
    /\ predictor = NewPredictor
    /\ disk = EmptyModelDir
    /\ history = NoHistory
    /\ db \in {EmptyDb, [u \in Usernames |-> Row(NullPosts, NullTime)]}
    /\ clock = 0

\* time passes between two calls
Tick ==
    /\ clock' \in {t \in Times : t > clock}
    /\ UNCHANGED <<tweets_data, result, predictor, disk, history, db>>

\* results = scraper.get_tweets_with_comments(usernames), the API and the
\* database answering alike for every username of the call
GetTweetsWithComments ==
    /\ \E usernames \in UsernameLists :
       \E world \in {[u \in Usernames |-> api] : api \in Apis} :
       \E out \in {get_tweets_with_comments(db, clock, usernames, world)} :
          /\ result' = [op |-> "get_tweets_with_comments", input |-> usernames,
                        output |-> [now |-> clock, results |-> out.results,
                                    trace |-> out.trace]]
          /\ db' = out.db
    /\ UNCHANGED <<tweets_data, predictor, disk, history, clock>>

NextScraper ==
    \/ Tick
    \/ GetTweetsWithComments

SpecScraper == InitScraper /\ [][NextScraper]_vars

(* ------------------------- vocabulary of the claims --------------------- *)

Filtered == result.op = "filter_valid_tweets"

Aggregated == result.op = "calculate_engagement_features"

Predicted == result.op = "predict_engagement"

\* the ids of the tweets of a mapping
Ids(data) == { data[i].id : i \in 1..Len(data) }

CounterKeys == {"views_count", "likes_count", "retweet_count", "reply_count"}

\* a non-empty string that int() rejects
NonNumeric(v) == v.kind = "str" /\ Len(v.s) > 0 /\ ~ParseInt(v.s).ok

HasNonNumericCounter(info) ==
    info.mapping /\ \E k \in CounterKeys : NonNumeric(info[k])

\* every counter of the tweet has a coerced value
AllCoerce(info) ==
    info.mapping /\ \A k \in CounterKeys : CoerceCounter(info[k]).ok

Coerced(info, k) == CoerceCounter(info[k]).val

\* the substring test can be evaluated on the tweet's text
TextEvaluable(info) ==
    info.mapping /\ info.full_text.kind \in {"str", "absent", "list"}

IsReshare(info) ==
    info.mapping /\ info.full_text.kind = "str" /\ Contains(RTMarker, info.full_text.s)

\* the normalizer as section 4.1 of the specification words it: a counter
\* that cannot be coerced is 0
Defaulted(info, k) == IF CoerceCounter(info[k]).ok THEN CoerceCounter(info[k]).val ELSE 0

\* exclusion rules 2 and 3 on four counter values
Rule2(v, l, r, p) == v = 0 /\ (l > 0 \/ r > 0 \/ p > 0)

Rule3(v, l, r, p) == v = 0 /\ l = 0 /\ r = 0 /\ p = 0

\* the tweets the aggregator adds: all four counters coerce, views > 0
Contributes(info) == AllCoerce(info) /\ Coerced(info, "views_count") > 0

RECURSIVE Total(_, _)
Total(data, k) ==
    IF data = <<>> THEN 0
    ELSE (IF Contributes(Head(data).info) THEN Coerced(Head(data).info, k) ELSE 0)
         + Total(Tail(data), k)

\* the tweets whose views alone coerce to a value > 0
ViewsPositive(info) == info.mapping /\ Defaulted(info, "views_count") > 0

RECURSIVE DefaultedTotal(_, _)
DefaultedTotal(data, k) ==
    IF data = <<>> THEN 0
    ELSE (IF ViewsPositive(Head(data).info) THEN Defaulted(Head(data).info, k) ELSE 0)
         + DefaultedTotal(Tail(data), k)

NotNonNumeric(t) == ~HasNonNumericCounter(t.info)

(* ------------------------------- C1 ------------------------------------- *)

C2_ReshareExcluded ==
    Filtered =>
       \A i \in 1..Len(result.input) :
          IsReshare(result.input[i].info)
          => result.input[i].id \notin Ids(result.output.filtered_tweets)

\* a tweet with the marker inside its text and well-formed counters with
\* views > 0 was filtered out
C2_Witness ==
    /\ Filtered
    /\ \E i \in 1..Len(result.input) :
          /\ result.input[i].info = Tweet(Quoted, S100, S10, S5, S2)
          /\ result.input[i].id \notin Ids(result.output.filtered_tweets)

(* ------------------------------- C3 ------------------------------------- *)

\* C3: a tweet whose views coerce to 0 while likes, retweets or replies
\* coerce to a value > 0 is never in the output of filter_valid_tweets.
C3_NoViewsButInteractionsExcluded ==
    Filtered =>
       \A i \in 1..Len(result.input) :
          LET info == result.input[i].info
          IN  ( /\ info.mapping
                /\ CoerceCounter(info.views_count).ok
                /\ Coerced(info, "views_count") = 0
                /\ \E k \in CounterKeys :
                      CoerceCounter(info[k]).ok /\ Coerced(info, k) > 0 )
              => result.input[i].id \notin Ids(result.output.filtered_tweets)

\* the example of the specification (views "0", likes "5") and a tweet with
\* only retweets met the filter
C3_Witness ==
    /\ Filtered
    /\ Len(result.input) = 2
    /\ result.input[1].info = Tweet(Hello, S0, S5, S0, S0)
    /\ result.input[2].info = Tweet(Hello, S0, S0, S1, S0)
    /\ result.output.filtered_tweets = <<>>

(* ------------------------------- C4 ------------------------------------- *)

\* C4: a tweet whose four counters all coerce to 0 (absent, None and empty
\* strings included) is never in the output of filter_valid_tweets.
C4_AllZeroExcluded ==
    Filtered =>
       \A i \in 1..Len(result.input) :
          LET info == result.input[i].info
          IN  (AllCoerce(info) /\ \A k \in CounterKeys : Coerced(info, k) = 0)
              => result.input[i].id \notin Ids(result.output.filtered_tweets)

\* a tweet with absent, None, empty and 0 counters and one with four "0"
\* met the filter
C4_Witness ==
    /\ Filtered
    /\ Len(result.input) = 2
    /\ result.input[1].info = Tweet(Absent, Absent, PyNone, Empty, PyInt(0))
    /\ result.input[2].info = Tweet(Hello, S0, S0, S0, S0)
    /\ result.output.filtered_tweets = <<>>

(* ------------------------------- C5 ------------------------------------- *)

\* the tweet matches none of the three exclusion rules, its counters read
\* as the specification's normalizer reads them
MatchesNoRule(t) ==
    /\ TextEvaluable(t.info)
    /\ ~IsReshare(t.info)
    /\ ~Rule2(Defaulted(t.info, "views_count"), Defaulted(t.info, "likes_count"),
              Defaulted(t.info, "retweet_count"), Defaulted(t.info, "reply_count"))
    /\ ~Rule3(Defaulted(t.info, "views_count"), Defaulted(t.info, "likes_count"),
              Defaulted(t.info, "retweet_count"), Defaulted(t.info, "reply_count"))

EvaluableAndNoRule(t) == AllCoerce(t.info) /\ MatchesNoRule(t)

IsQuotient(ratio, num, den) == ratio.den > 0 /\ ratio.num * den = num * ratio.den

C7_ZeroViewsZeroRatios ==
    /\ Aggregated =>
         /\ ~result.output.raised
         /\ ( \/ result.output.rows[1].total_views = 0
              \/ \A i \in 1..Len(result.input) : ~Contributes(result.input[i].info) )
            => /\ result.output.rows[1].total_views = 0
               /\ result.output.rows[1].likes_per_views = Zero
               /\ result.output.rows[1].retweets_per_views = Zero
               /\ result.output.rows[1].replies_per_views = Zero
               /\ result.output.rows[1].valid_tweets_count = 0
    /\ Predicted =>
         /\ ~result.output.raised
         /\ ( /\ ~( /\ result.input.likes_per_views.has
                    /\ result.input.retweets_per_views.has
                    /\ result.input.replies_per_views.has )
              /\ GetCount(result.input.views) = 0 )
            => result.output.feature_values = <<Zero, Zero, Zero>>

\* a non-empty mapping none of whose tweets has views > 0, one of them with
\* likes, was aggregated
C7_Witness ==
    /\ Aggregated
    /\ Len(result.input) = 2
    /\ \E i \in 1..2 : result.input[i].info = Tweet(Hello, S0, S5, S0, S0)
    /\ result.output.rows[1].total_views = 0
    /\ result.output.rows[1].likes_per_views = Zero

(* ------------------------------- C8 ------------------------------------- *)

NumberOf(data, Test(_)) == Cardinality({ i \in 1..Len(data) : Test(data[i].info) })

FilterEvaluates(t) == TextEvaluable(t.info)

\* the evaluation of the tweet by the aggregator does not fail
AggregatorEvaluates(t) == t.info.mapping

\* C9: a tweet whose evaluation fails (a record that is not a mapping, a
\* full_text that is not a string) is dropped alone: neither function raises
\* and each returns what it returns for the mapping without that tweet.
C9_FailureDropsOneTweet ==
    /\ Filtered =>
         /\ ~result.output.raised
         /\ result.output = filter_valid_tweets(SelectSeq(result.input, FilterEvaluates))
    /\ Aggregated =>
         /\ ~result.output.raised
         /\ result.output =
               calculate_engagement_features(SelectSeq(result.input, AggregatorEvaluates))

\* a record that is not a mapping came first and the tweet after it was kept
C9_Witness ==
    /\ Filtered
    /\ Len(result.input) = 2
    /\ result.input[1].info = NotAMapping
    /\ Len(result.output.filtered_tweets) = 1
    /\ result.output.filtered_tweets[1] = result.input[2]

(* ------------------------------- C10 ------------------------------------ *)

\* C10: every counter the filter rules read or the aggregator adds is a
\* non-negative integer, and so is every total and every ratio.
C10_CountersNonNegative ==
    /\ Filtered =>
         \A i \in 1..Len(result.output.filtered_tweets) :
            \A k \in CounterKeys : Coerced(result.output.filtered_tweets[i].info, k) >= 0
    /\ (Aggregated /\ ~result.output.raised) =>
         /\ result.output.rows[1].total_views >= 0
         /\ result.output.rows[1].total_likes >= 0
         /\ result.output.rows[1].total_retweets >= 0
         /\ result.output.rows[1].total_replies >= 0
         /\ result.output.rows[1].likes_per_views.num >= 0
         /\ result.output.rows[1].retweets_per_views.num >= 0
         /\ result.output.rows[1].replies_per_views.num >= 0

(* ------------------------------- C11 ------------------------------------ *)

\* the stored value is absent or falsy: missing key, None, '', 0, []
Falsy(v) ==
    \/ v.kind \in {"absent", "none"}
    \/ v.kind = "int" /\ v.n = 0
    \/ v.kind \in {"str", "list"} /\ v.s = <<>>

ZeroIfFalsy(v) == IF Falsy(v) THEN PyStr(<<"0">>) ELSE v

\* the mapping with every falsy counter of every tweet replaced by "0"
ZeroFilled(data) ==
    [i \in 1..Len(data) |->
        [id |-> data[i].id,
         info |-> IF data[i].info.mapping
                  THEN [data[i].info EXCEPT !.views_count = ZeroIfFalsy(@),
                                            !.likes_count = ZeroIfFalsy(@),
                                            !.retweet_count = ZeroIfFalsy(@),
                                            !.reply_count = ZeroIfFalsy(@)]
                  ELSE data[i].info]]

\* C11: an absent or falsy counter (missing key, None, empty string, 0) is
\* normalized to 0 without a coercion attempt and leaves the tweet's other
\* counters alone: both functions return what they return when "0" is stored
\* in its place. Every other value is coerced by int().
C11_FalsyIsZeroOthersCoerced ==
    /\ Filtered =>
         Ids(result.output.filtered_tweets)
            = Ids(filter_valid_tweets(ZeroFilled(result.input)).filtered_tweets)
    /\ Aggregated =>
         result.output = calculate_engagement_features(ZeroFilled(result.input))
    /\ (Filtered \/ Aggregated) =>
         \A i \in 1..Len(result.input) : \A k \in CounterKeys :
            LET info == result.input[i].info
            IN  info.mapping =>
                   /\ Falsy(info[k]) =>
                         CoerceCounter(info[k]) = [ok |-> TRUE, exc |-> "", val |-> 0]
                   /\ ~Falsy(info[k]) => CoerceCounter(info[k]) = PyIntOf(info[k])

\* a tweet with views "100" and its three other counters missing was
\* aggregated: its views are in the totals, its other counters count as 0
C11_Witness ==
    /\ Aggregated
    /\ Len(result.input) = 1
    /\ result.input[1].info = Tweet(Hello, S100, Absent, Absent, Absent)
    /\ result.output.rows[1].total_views = 100
    /\ result.output.rows[1].total_likes = 0
    /\ result.output.rows[1].valid_tweets_count = 1

(* ------------------------- the predictor's claims ------------------------- *)

PredictedClusters == result.op = "predict_engagement_clusters"

\* both artifacts are set on the instance
Loaded(self) == ~IsNone(self.scaler) /\ ~IsNone(self.kmeans_model)

\* C12: a call of predict_engagement_clusters on an instance that holds both
\* artifacts does not call load_models and leaves scaler and kmeans_model as
\* they were, whatever the model directory holds by then; and an instance on
\* which no prediction was made holds no artifact
C12_LoadedOnce ==
    /\ (PredictedClusters /\ Loaded(result.output.before)) =>
          /\ ~result.output.load_called
          /\ result.output.self.scaler = result.output.before.scaler
          /\ result.output.self.kmeans_model = result.output.before.kmeans_model
    /\ ~history.predicted =>
          /\ IsNone(predictor.scaler)
          /\ IsNone(predictor.kmeans_model)

\* a prediction on an instance that loaded version v1, made after the files
\* were replaced by version v2
C12_Witness ==
    /\ PredictedClusters
    /\ Loaded(result.output.before)
    /\ result.output.before.scaler.version = "v1"
    /\ result.output.disk = [scaler |-> "v2", kmeans |-> "v2"]
    /\ ~result.output.none
    /\ result.output.self.scaler.version = "v1"

\* the scaler file or the model file was not in the model directory at the call
FileAbsent == ~Exists(result.output.disk.scaler) \/ ~Exists(result.output.disk.kmeans)

\* the call returned None and nothing else: no row, no method of an artifact
\* called, no exception
NoResult ==
    /\ result.output.none
    /\ ~result.output.raised
    /\ result.output.rows = <<>>
    /\ result.output.calls = <<>>

\* C13 as stated: whenever one of the two files is absent from the model
\* directory, predict_engagement_clusters returns None and no partial result
C13_AbsentFileNoResult == (PredictedClusters /\ FileAbsent) => NoResult

\* C13: on an instance that does not hold both artifacts yet, a call made
\* while one of the two files is absent returns None and no partial result
C13_AbsentFileNoResultUnlessLoaded ==
    (PredictedClusters /\ FileAbsent /\ ~Loaded(result.output.before)) => NoResult

\* a first call with the scaler file there and the model file absent
C13_Witness ==
    /\ PredictedClusters
    /\ result.output.before = NewPredictor
    /\ result.output.disk = [scaler |-> "v1", kmeans |-> "absent"]
    /\ Len(result.input) > 0
    /\ result.output.none

\* no post of the input of the call contributes to the aggregation
NothingContributes == NumberOf(result.input, Contributes) = 0

\* C14: a prediction on an input of which no post contributes (empty mapping,
\* or every post skipped) returns None instead of a cluster assignment
C14_EmptyFeatureTableNoResult ==
    (PredictedClusters /\ NothingContributes) => result.output.none

PageRun == result.op = "page"

NoValidTweets == "No valid tweets found for engagement analysis after filtering."

AnalysisFailed == "Failed to perform engagement analysis. Please check the data and try again."

\* both files of the directory are there and can be read
Readable(dir) == Loadable(dir.scaler) /\ Loadable(dir.kmeans)

SameCall ==
    /\ PredictedClusters
    /\ history.earlier.set
    /\ result.input = history.earlier.input
    /\ result.output.self.scaler = history.earlier.scaler
    /\ result.output.self.kmeans_model = history.earlier.kmeans_model

\* C16: a call of predict_engagement_clusters returns what an earlier call on
\* the same instance returned for the same input with the same artifacts
\* (None or the same row: features, totals, cluster id and label), whatever
\* was called on the instance in between
C16_SameInputSameResult ==
    SameCall =>
       /\ ~result.output.raised
       /\ result.output.none = history.earlier.none
       /\ result.output.rows = history.earlier.rows

\* a second call on a one-post input after a call on another input
C16_Witness ==
    /\ SameCall
    /\ history.between
    /\ Len(result.input) > 0
    /\ ~result.output.none
    /\ result.output.rows[1].valid_tweets_count > 0

\* the call returned a table
Returned == PredictedClusters /\ ~result.output.none /\ ~result.output.raised

\* C17: every row returned by predict_engagement_clusters has a cluster in
\* 0..3 and the cluster_label of that cluster in engagement_clusters_4
C17_ClusterAndLabelOfTaxonomy ==
    Returned =>
       \A i \in 1..Len(result.output.rows) :
          /\ result.output.rows[i].cluster \in 0..3
          /\ result.output.rows[i].cluster_label =
                engagement_clusters_4[result.output.rows[i].cluster].cluster_label

\* a row of an input that counts, assigned to cluster 0 and carrying its label
C17_Witness ==
    /\ Returned
    /\ result.output.rows[1].cluster = 0
    /\ result.output.rows[1].cluster_label = "Engagement Equilibre"
    /\ result.output.rows[1].valid_tweets_count > 0

\* the instance as the call found it, or as load_models left it when the call
\* had to load
ArtifactsUsed ==
    IF NeedsLoad(result.output.before)
    THEN load_models(result.output.before, result.output.disk).self
    ELSE result.output.before

\* C18: a call that returns a table called scaler.transform and then
\* kmeans_model.predict and nothing else on the artifacts; the cluster is the
\* one the model predicts for the scaler's transform of the three ratios
\* taken in the order likes, retweets, replies; the artifacts are after the
\* call what they were when it used them. A call that returns None called
\* nothing on them
C18_TransformThenPredictOnly ==
    PredictedClusters =>
       /\ result.output.self.scaler = ArtifactsUsed.scaler
       /\ result.output.self.kmeans_model = ArtifactsUsed.kmeans_model
       /\ result.output.none => result.output.calls = <<>>
       /\ Returned =>
             /\ result.output.calls = <<"scaler.transform", "kmeans_model.predict">>
             /\ result.output.rows[1].cluster =
                   Predict(result.output.self.kmeans_model,
                           Transform(result.output.self.scaler,
                                     << result.output.rows[1].likes_per_views,
                                        result.output.rows[1].retweets_per_views,
                                        result.output.rows[1].replies_per_views >>))

\* a call that loads version v1 and assigns cluster 3 to ratios that are not
\* all the same
C18_Witness ==
    /\ Returned
    /\ result.output.load_called
    /\ result.output.self.scaler.version = "v1"
    /\ result.output.rows[1].likes_per_views # result.output.rows[1].retweets_per_views
    /\ result.output.rows[1].cluster = 3

\* the rows of the table a call of the engine returned
FeatureRows ==
    IF Aggregated /\ ~result.output.raised THEN result.output.rows
    ELSE IF Returned THEN result.output.rows
    ELSE <<>>

\* C19: the table the engine returns for an input of which some post
\* contributes has one row per post that contributes (valid, views > 0), each
\* carrying the id of its post
C19_OneRowPerPost ==
    (((Aggregated /\ ~result.output.raised) \/ Returned) /\ ~NothingContributes) =>
       /\ Len(FeatureRows) = NumberOf(result.input, Contributes)
       /\ \A i \in 1..Len(FeatureRows) : "tweet_id" \in DOMAIN FeatureRows[i]

\* the Summary Builder was called
Summarized == result.op = "get_account_engagement_summary"

\* C20: the Summary Builder called on an empty list of assignments does not
\* raise and returns a summary with total 0 and an empty distribution
C20_EmptySummary ==
    (Summarized /\ result.input = <<>>) =>
       /\ ~result.output.raised
       /\ result.output.summary.total_tweets = 0
       /\ result.output.summary.cluster_distribution = <<>>

\* the number of rows carrying a label
RowsLabelled(rows, label) ==
    Cardinality({ i \in 1..Len(rows) : rows[i].cluster_label = label })

\* C21: the Summary Builder called on a non-empty table returns a summary
\* whose cluster_distribution maps each label of the table to the number of
\* rows carrying it (every row is counted under its label) and whose
\* dominant_cluster is a label of maximal count
C21_DominantIsMostFrequent ==
    (Summarized /\ result.input # <<>>) =>
       /\ ~result.output.raised
       /\ \A i \in 1..Len(result.input) :
             result.input[i].cluster_label \in DOMAIN result.output.summary.cluster_distribution
       /\ \A label \in DOMAIN result.output.summary.cluster_distribution :
             /\ result.output.summary.cluster_distribution[label] =
                   RowsLabelled(result.input, label)
             /\ result.output.summary.cluster_distribution[label] <=
                   result.output.summary.cluster_distribution[
                       result.output.summary.dominant_cluster]
       /\ result.output.summary.dominant_cluster \in
             DOMAIN result.output.summary.cluster_distribution

\* C22: no step changes the mapping read: after filter_valid_tweets,
\* calculate_engagement_features and predict_engagement_clusters (called
\* directly or by the page) every post has the text and the counters it had
C22_InputNeverModified == [][tweets_data' = tweets_data]_vars

\* after a prediction that counted both posts of the two-post mapping, the
\* mapping still holds them with their counters as strings
C22_Witness ==
    /\ Returned
    /\ result.output.rows[1].valid_tweets_count = 2
    /\ Len(tweets_data) = 2
    /\ tweets_data[1].info = Tweet(Hello, S100, S10, S2, S1)
    /\ tweets_data[2].info = Tweet(Quoted, S100, S0, S2, S1)

\* the four counters of the tweet coerce, to values that are not negative
WellFormedNonNegative(info) ==
    AllCoerce(info) /\ \A k \in CounterKeys : Coerced(info, k) >= 0

\* the aggregation was run on the output of the filter
AggregatedFiltered ==
    Aggregated /\ result.input = filter_valid_tweets(tweets_data).filtered_tweets

\* C25: every post the filter keeps whose counters are well-formed and not
\* negative has views > 0, and the aggregation of the filter's output counts
\* every post of it
C25_FilteredAllCounted ==
    /\ Filtered =>
          \A i \in 1..Len(result.output.filtered_tweets) :
             WellFormedNonNegative(result.output.filtered_tweets[i].info) =>
                Coerced(result.output.filtered_tweets[i].info, "views_count") > 0
    /\ (AggregatedFiltered /\ ~result.output.raised) =>
          result.output.rows[1].valid_tweets_count = Len(result.input)

\* the text of every post of the mapping is a string without "RT @", or is
\* absent (a post that is not a mapping has no text)
NoReshareText(data) ==
    \A i \in 1..Len(data) :
       data[i].info.mapping =>
          /\ data[i].info.full_text.kind \in {"str", "absent"}
          /\ ~IsReshare(data[i].info)

\* C26: on a mapping whose texts are strings without "RT @" (or absent), the
\* aggregation of the raw mapping returns the row (totals, ratios,
\* valid_tweets_count) that the aggregation of the filtered mapping returns
C26_FilterChangesNothingWithoutReshares ==
    (Aggregated /\ result.input = tweets_data /\ NoReshareText(tweets_data)) =>
       result.output =
          calculate_engagement_features(filter_valid_tweets(tweets_data).filtered_tweets)

\* the raw mapping holds a post that counts and a post the filter drops by
\* rule 2, and the aggregation counted one post
C26_Witness ==
    /\ Aggregated
    /\ result.input = tweets_data
    /\ NoReshareText(tweets_data)
    /\ Len(tweets_data) = 2
    /\ Len(filter_valid_tweets(tweets_data).filtered_tweets) = 1
    /\ \E i \in 1..2 : tweets_data[i].info = Tweet(Hello, S0, S5, S0, S0)
    /\ result.output.rows[1].valid_tweets_count = 1

\* C27: scaler and kmeans_model of the predictor are both unset or both
\* loaded, and a call in which load_models returned False leaves both as
\* they were
C27_BothOrNeither ==
    /\ IsNone(predictor.scaler) <=> IsNone(predictor.kmeans_model)
    /\ (PredictedClusters /\ result.output.load_called /\ result.output.none) =>
          /\ result.output.self.scaler = result.output.before.scaler
          /\ result.output.self.kmeans_model = result.output.before.kmeans_model

Displayed == result.op = "display"

Cast == result.op = "cast_views_count_to_int"

\* the views_count after the cast of a stored views_count: the integer it
\* spells, 0 when it spells none, nothing when the key is missing
CastOrZero(v) ==
    IF v.kind = "absent" THEN v
    ELSE IF PyIntOf(v).ok THEN PyInt(PyIntOf(v).val)
    ELSE PyInt(0)

\* C30: cast_views_count_to_int never raises; NaN and a text that is not JSON
\* come back unchanged; for JSON it returns the parsed mapping with every
\* views_count an integer (0 for a malformed one) and the other fields
\* unchanged
C30_CastNeverRaises ==
    Cast =>
       /\ ~result.output.raised
       /\ result.input.kind # "json" => result.output.value = result.input
       /\ result.input.kind = "json" =>
             /\ result.output.value.kind = "dict"
             /\ Len(result.output.value.posts) = Len(result.input.posts)
             /\ \A i \in 1..Len(result.input.posts) :
                   result.output.value.posts[i] =
                      [result.input.posts[i] EXCEPT
                         !.info.views_count =
                            CastOrZero(result.input.posts[i].info.views_count)]

Scraped == result.op = "get_tweets_with_comments"

\* the last position of the list at which username u stands
LastOf(u) ==
    CHOOSE i \in DOMAIN result.input :
       /\ result.input[i] = u
       /\ \A j \in DOMAIN result.input : result.input[j] = u => j <= i

\* C23: the mapping returned holds a flag for every username of the list; an
\* exception while one username is processed makes that username's flag False
\* and no other's, and the usernames after it are processed all the same
C23_FlagForEveryUsername ==
    Scraped =>
       /\ DOMAIN result.output.results = {result.input[i] : i \in DOMAIN result.input}
       /\ Len(result.output.trace) = Len(result.input)
       /\ \A i \in DOMAIN result.input :
             result.output.trace[i].username = result.input[i]
       /\ \A u \in DOMAIN result.output.results :
             /\ result.output.results[u] = result.output.trace[LastOf(u)].flag
             /\ result.output.trace[LastOf(u)].path = "exception" =>
                   ~result.output.results[u]

\* witness of C23: the first of two usernames raised, and the second one was
\* fetched and stored with a flag True
C23_Witness ==
    /\ Scraped
    /\ Len(result.input) = 2
    /\ result.input[1] # result.input[2]
    /\ result.output.trace[1].path = "exception"
    /\ result.output.trace[2].path = "stored"
    /\ ~result.output.results[result.input[1]]
    /\ result.output.results[result.input[2]]

\* the row holds posts synced less than 86400 seconds before now
Recent(row, now) ==
    /\ row.exists
    /\ ~row.posts.null
    /\ ~row.sync_at.null
    /\ now - row.sync_at.t < 86400

C29_TrueOnlyWithATweetStored ==
    Scraped =>
       \A i \in DOMAIN result.output.trace :
          (/\ result.output.trace[i].path = "stored"
           /\ result.output.trace[i].flag
           /\ result.output.trace[i].after.exists) =>
             /\ ~result.output.trace[i].after.posts.null
             /\ Len(result.output.trace[i].after.posts.tweets) > 0

====
